---- MODULE Spec2Model ----
(***************************************************************************)
(* BlenderFDS, extended Blender types (zzz_blenderfds/bl/extensions.py).   *)
(*                                                                         *)
(* The model covers the translation engine that the add-on attaches to the *)
(* host's Object, Material and Scene types: the export of a scene (to_fds) *)
(* and the import of an FDS text into a scene (from_fds).                  *)
(*                                                                         *)
(* A Python str is a sequence of one-character strings; "\n" is the        *)
(* newline.  A Python list is a sequence.  None and the empty string are   *)
(* both <<>> where the code only tests their truth value.                  *)
(***************************************************************************)
EXTENDS Integers, Sequences, FiniteSets, TLC

VARIABLES
    \* ---- host data (bpy.data, the scene) ----
    objects,            \* context.scene.objects, in collection order
    materials,          \* bpy.data.materials, in collection order
    texts,              \* bpy.data.texts: text name -> contents
    bf_head_free_text,  \* scene.bf_head_free_text: name of the free text, or ""
    appearance,         \* scene unit system and render engine
    sn_exported,        \* scene namelists whose to_fds yields a body
    \* ---- BFScene.from_fds call frame ----
    pc,                 \* position in from_fds
    tokens,             \* local: result of the tokenizer (None is <<>>)
    errors,             \* local: the error flag
    free_texts,         \* local: the fallback list
    todo,               \* the sorted token list the for loop iterates
    i,                  \* index of the next token of todo
    result,             \* how the last call ended: "none", "ok", "BFException"
    \* ---- history of the current/last from_fds call ----
    old_exists,         \* the scene had a free text when the call started
    old_text,           \* its contents when the call started
    tok_free_texts,     \* fragments carried by the tokenizer's BFException
    tok_failed,         \* the tokenizer raised
    processed,          \* tokens handled by the loop, with their outcome
    saves,              \* runs of _save_imported_unmanaged_tokens in the call
    \* ---- export ----
    out                 \* value returned by the last to_fds call

hostvars == <<objects, materials, texts, bf_head_free_text, appearance, sn_exported>>
callvars == <<pc, tokens, errors, free_texts, todo, i, result>>
histvars == <<old_exists, old_text, tok_free_texts, tok_failed, processed, saves>>
vars == <<hostvars, callvars, histvars, out>>

-----------------------------------------------------------------------------
(* Bounds of the model *)

MaxTokens == 2      \* longest token list the tokenizer returns
MaxTextLen == 1     \* a further import starts only while the free text is this short
MaxEntities == 0    \* ... and the scene holds at most this many imported entities
MaxMaterials == 3   \* most materials of an exported scene

-----------------------------------------------------------------------------
(* Strings *)

NL == "\n"

\* Characters in increasing code point order (Python compares str by code point).
Alphabet == <<"\n", " ", "&", "'", "-", ".", "/", "0", "1", "2", "3", ":", "=",
              "A", "B", "C", "D", "E", "F", "G", "H", "I", "M", "N", "O", "R",
              "S", "T", "U", "X", "Z", "_",
              "a", "b", "c", "d", "e", "r", "w", "x">>

Ord(c) == CHOOSE k \in 1..Len(Alphabet) : Alphabet[k] = c

\* a < b for Python str
StrLess(a, b) ==
    \E k \in 1..(Len(a) + 1) :
        /\ k <= Len(b)
        /\ \A j \in 1..(k - 1) : a[j] = b[j]
        /\ \/ k = Len(a) + 1
           \/ Ord(a[k]) < Ord(b[k])

RECURSIVE Flatten(_)
\* "".join(list)
Flatten(list) ==
    IF list = <<>> THEN <<>> ELSE Head(list) \o Flatten(Tail(list))

RECURSIVE Join(_, _)
\* sep.join(list)
Join(sep, list) ==
    IF list = <<>> THEN <<>>
    ELSE IF Len(list) = 1 THEN Head(list)
    ELSE Head(list) \o sep \o Join(sep, Tail(list))

\* sub in text (Python's substring test)
Contains(text, sub) ==
    \E k \in 0..(Len(text) - Len(sub)) :
        \A j \in 1..Len(sub) : text[k + j] = sub[j]

\* sorted(list, key=...) and list.sort(key=...): a stable sort. less[j][k] is
\* key(list[j]) < key(list[k]).
StableSort(list, less) ==
    LET n == Len(list)
        before(k) == {j \in 1..n : less[j][k] \/ (~less[k][j] /\ j < k)}
    IN  [p \in 1..n |-> list[CHOOSE k \in 1..n : Cardinality(before(k)) = p - 1]]

\* the comparisons of the sort keys k.name of a list
NameLess(list) ==
    [j \in 1..Len(list) |-> [k \in 1..Len(list) |-> StrLess(list[j].name, list[k].name)]]

-----------------------------------------------------------------------------
(* The namelist registry, BFNamelist.all (zzz_blenderfds/types.py) *)

SURF_ID == <<"S", "U", "R", "F", "_", "I", "D">>
OBST == <<"O", "B", "S", "T">>
HEAD == <<"H", "E", "A", "D">>
GEOM == <<"G", "E", "O", "M">>
ZZZZ == <<"Z", "Z", "Z", "Z">>

ON_MESH == <<"O", "N", "_", "M", "E", "S", "H">>
ON_OBST == <<"O", "N", "_", "O", "B", "S", "T">>
ON_free == <<"O", "N", "_", "f", "r", "e", "e">>
MN_SURF == <<"M", "N", "_", "S", "U", "R", "F">>
SN_HEAD == <<"S", "N", "_", "H", "E", "A", "D">>
SN_TIME == <<"S", "N", "_", "T", "I", "M", "E">>
SN_MISC == <<"S", "N", "_", "M", "I", "S", "C">>

\* The registered classes, in registration order. Each is of Scene, Object or
\* Material type, so _get_imported_element never raises its ValueError.
BFNamelist_all == <<
    [name |-> SN_TIME, fds_label |-> <<"T", "I", "M", "E">>, bpy_type |-> "Scene", enum_id |-> 3],
    [name |-> ON_OBST, fds_label |-> OBST, bpy_type |-> "Object", enum_id |-> 1000],
    [name |-> SN_HEAD, fds_label |-> HEAD, bpy_type |-> "Scene", enum_id |-> 1],
    [name |-> MN_SURF, fds_label |-> SURF_ID, bpy_type |-> "Material", enum_id |-> 2000],
    [name |-> ON_MESH, fds_label |-> <<"M", "E", "S", "H">>, bpy_type |-> "Object", enum_id |-> 1014],
    [name |-> SN_MISC, fds_label |-> <<"M", "I", "S", "C">>, bpy_type |-> "Scene", enum_id |-> 2],
    [name |-> ON_free, fds_label |-> <<>>, bpy_type |-> "Object", enum_id |-> 1007] >>

NoClass == [name |-> <<>>, fds_label |-> <<>>, bpy_type |-> "", enum_id |-> 0]

Classes == {BFNamelist_all[k] : k \in 1..Len(BFNamelist_all)}

\* BFNamelist.all.get(name) and BFNamelist.all[name]; NoClass is None
BFNamelist_get(name) ==
    IF \E c \in Classes : c.name = name /\ name # <<>>
    THEN CHOOSE c \in Classes : c.name = name
    ELSE NoClass

\* BFNamelist.all.get_by_fds_label(fds_label); NoClass is None
get_by_fds_label(fds_label) ==
    IF \E c \in Classes : c.fds_label = fds_label /\ fds_label # <<>>
    THEN CHOOSE c \in Classes : c.fds_label = fds_label
    ELSE NoClass

-----------------------------------------------------------------------------
(* Host collaborators of the import *)

\* out before any to_fds call
NoCall == [call |-> "none", self |-> <<>>, with_children |-> FALSE, value |-> <<>>]

FreeTextName == "HEAD free text"

New == <<"N", "e", "w", " ">>

Digits == <<"0", "1", "2", "3", "4", "5", "6", "7", "8", "9">>

\* The host keeps names unique within a collection: "New OBST", "New OBST.001", ...
UniqueName(base, taken) ==
    IF base \notin taken THEN base
    ELSE LET suffix(k) == <<".", "0", "0", Digits[k + 1]>>
             k == CHOOSE n \in 1..9 :
                     /\ (base \o suffix(n)) \notin taken
                     /\ \A m \in 1..(n - 1) : (base \o suffix(m)) \in taken
         IN  base \o suffix(k)

NamesOf(collection) == {collection[k].name : k \in 1..Len(collection)}

\* geometry.geom_utils.get_new_object(context, scene, name): a new mesh object
\* linked to the scene, with the properties' defaults
get_new_object(obs, name) ==
    [name |-> UniqueName(name, NamesOf(obs)), type |-> "MESH", bf_export |-> TRUE,
     bf_namelist_cls |-> ON_OBST, parent |-> <<>>, bf_is_tmp |-> FALSE,
     show_transparent |-> FALSE]

\* geometry.geom_utils.get_new_material(context, name)
get_new_material(mas, name) ==
    [name |-> UniqueName(name, NamesOf(mas)), bf_namelist_cls |-> MN_SURF,
     use_fake_user |-> FALSE]

\* fds.head.set_free_text_file(context, scene): get or create the free text
\* file of the scene; the texts and the scene property afterwards
set_free_text_file(txts, head_free_text) ==
    IF head_free_text # "" /\ head_free_text \in DOMAIN txts
    THEN [texts |-> txts, bf_head_free_text |-> head_free_text]
    ELSE [texts |-> [n \in (DOMAIN txts) \cup {FreeTextName} |->
                        IF n \in DOMAIN txts THEN txts[n] ELSE <<>>],
          bf_head_free_text |-> FreeTextName]

\* bpy.data.texts[scene.bf_head_free_text].as_string(), "" when there is none
FreeText ==
    IF bf_head_free_text # "" /\ bf_head_free_text \in DOMAIN texts
    THEN texts[bf_head_free_text]
    ELSE <<>>

FreeTextExists == bf_head_free_text # "" /\ bf_head_free_text \in DOMAIN texts

-----------------------------------------------------------------------------
(* Tokens: what fds.to_py.tokenize returns, and what a BFException carries *)

Token(fds_label, fds_params, fds_original) ==
    [fds_label |-> fds_label, fds_params |-> fds_params, fds_original |-> fds_original]

TokenPool == {
    Token(SURF_ID, [ID |-> "a"], <<"S", "1">>),
    Token(SURF_ID, [ID |-> "b"], <<"S", "2">>),
    Token(OBST, [XB |-> "0,1,0,1,0,1"], <<"O", "1">>),
    Token(HEAD, [CHID |-> "c"], <<"H", "1">>),
    Token(GEOM, [ID |-> "g", XYZ |-> "0,0,0"], <<"G", "1">>),
    Token(ZZZZ, [ID |-> "z"], <<"Z", NL, "1">>),
    Token(ZZZZ, [ID |-> "y"], <<"Y">>) }

TokenLists == UNION {[1..n -> TokenPool] : n \in 0..MaxTokens}

\* err.free_texts of a BFException: zero or more raw fragments
ErrFreeTexts == { <<>>, << <<"E", "1">>, <<"e">> >> }

\* Contents the scene's free text may hold before an import
InitialFreeTexts == { <<>>, <<"a">>, <<"a", NL, "b">> }

-----------------------------------------------------------------------------
(* BFScene: import *)

GeometricLabels == {"XB", "XYZ", "PBX", "PBY", "PBZ"}

\* BFScene._get_imported_bf_namelist_cls; NoClass is None
get_imported_bf_namelist_cls(fds_label, fds_params) ==
    LET bf_namelist_cls == get_by_fds_label(fds_label)
    IN  IF bf_namelist_cls = NoClass
        THEN IF \E label \in GeometricLabels : label \in DOMAIN fds_params
             THEN BFNamelist_get(ON_free)
             ELSE NoClass
        ELSE bf_namelist_cls

\* BFScene._get_imported_element: the host data after the element was got or
\* created and given its default appearance; ok is FALSE on the ValueError
get_imported_element(bf_namelist_cls, fds_label) ==
    LET bpy_type == bf_namelist_cls.bpy_type
    IN  IF bpy_type = "Scene"
        THEN [ok |-> TRUE, objects |-> objects, materials |-> materials,
              appearance |-> [system |-> "METRIC", engine |-> "CYCLES"]]
        ELSE IF bpy_type = "Object"
        THEN LET element == [get_new_object(objects, New \o fds_label)
                                EXCEPT !.bf_namelist_cls = bf_namelist_cls.name,
                                       !.show_transparent = TRUE]
             IN  [ok |-> TRUE, objects |-> Append(objects, element),
                  materials |-> materials, appearance |-> appearance]
        ELSE IF bpy_type = "Material"
        THEN LET element == [get_new_material(materials, New \o fds_label)
                                EXCEPT !.bf_namelist_cls = MN_SURF,
                                       !.use_fake_user = TRUE]
             IN  [ok |-> TRUE, objects |-> objects,
                  materials |-> Append(materials, element), appearance |-> appearance]
        ELSE [ok |-> FALSE, objects |-> objects, materials |-> materials,
              appearance |-> appearance]

SurfKey_equal(token) == IF token.fds_label = SURF_ID THEN 1 ELSE 0

\* key=lambda k: k[0] != ("SURF_ID"), as 0 (False) or 1 (True)
SurfKey(token) == IF token.fds_label # SURF_ID THEN 1 ELSE 0

\* sorted(tokens, key=lambda k: k[0] != ("SURF_ID"))
SortedTokens(tkns) ==
    StableSort(tkns, [j \in 1..Len(tkns) |-> [k \in 1..Len(tkns) |->
                         SurfKey(tkns[j]) < SurfKey(tkns[k])]])

Extended_flag_only(fts, err_free_texts) == fts

\* free_texts.extend(err.free_texts)
Extended(fts, err_free_texts) == fts \o err_free_texts

\* free_texts.append(fds_original)
Appended(fts, fds_original) == Append(fts, fds_original)

MergedFreeTexts_overwritten(fts, old_free_texts) ==
    IF old_free_texts # <<>> THEN <<old_free_texts>> ELSE fts

MergedFreeTexts_old_first(fts, old_free_texts) ==
    IF old_free_texts # <<>> THEN <<old_free_texts>> \o fts ELSE fts

MergedFreeTexts_forgotten(fts, old_free_texts) == fts

\* the list _save_imported_unmanaged_tokens joins: free_texts after
\* "if old_free_texts: free_texts.append(old_free_texts)"
MergedFreeTexts(fts, old_free_texts) ==
    IF old_free_texts # <<>> THEN Append(fts, old_free_texts) ELSE fts

AfterTokenize_skip_save(tkns) == IF tkns # <<>> THEN "loop" ELSE "return"

\* where from_fds goes after the tokenizer: into the loop "if tokens", else on
AfterTokenize(tkns) == IF tkns # <<>> THEN "loop" ELSE "save"

\* where the for loop goes after the token at index k
AfterToken(k) == IF k < Len(todo) THEN "loop" ELSE "save"

\* a further from_fds call is considered only while the scene is small
MayImport ==
    /\ Len(FreeText) <= MaxTextLen
    /\ Len(objects) + Len(materials) <= MaxEntities

\* from_fds, lines 335-343 and 345-346: the tokenizer returns the tokens
TokenizeOk ==
    /\ pc = "idle"
    /\ MayImport
    /\ \E tkns \in TokenLists :
        /\ tokens' = tkns
        /\ todo' = SortedTokens(tkns)
        /\ pc' = AfterTokenize(tkns)
    /\ errors' = FALSE
    /\ free_texts' = <<>>
    /\ i' = 1
    /\ result' = "none"
    /\ old_exists' = FreeTextExists
    /\ old_text' = FreeText
    /\ tok_free_texts' = <<>>
    /\ tok_failed' = FALSE
    /\ processed' = <<>>
    /\ saves' = 0
    /\ UNCHANGED <<hostvars, out>>

\* from_fds, lines 335-343: the tokenizer raises a BFException
TokenizeError ==
    /\ pc = "idle"
    /\ MayImport
    /\ \E err_free_texts \in ErrFreeTexts :
        /\ free_texts' = Extended(<<>>, err_free_texts)
        /\ tok_free_texts' = err_free_texts
    /\ tokens' = <<>>
    /\ todo' = <<>>
    /\ pc' = AfterTokenize(<<>>)
    /\ errors' = TRUE
    /\ i' = 1
    /\ result' = "none"
    /\ old_exists' = FreeTextExists
    /\ old_text' = FreeText
    /\ tok_failed' = TRUE
    /\ processed' = <<>>
    /\ saves' = 0
    /\ UNCHANGED <<hostvars, out>>

\* one iteration of the loop on a managed token whose namelist imports it
ImportManaged ==
    /\ pc = "loop"
    /\ LET token == todo[i]
           bf_namelist_cls == get_imported_bf_namelist_cls(token.fds_label, token.fds_params)
           got == get_imported_element(bf_namelist_cls, token.fds_label)
       IN  /\ bf_namelist_cls # NoClass
           /\ got.ok
           /\ objects' = got.objects
           /\ materials' = got.materials
           /\ appearance' = got.appearance
           /\ processed' = Append(processed,
                  [token |-> token, outcome |-> "imported", free_texts |-> <<>>])
    /\ pc' = AfterToken(i)
    /\ i' = i + 1
    /\ UNCHANGED <<texts, bf_head_free_text, sn_exported, tokens, errors, free_texts,
                   todo, result, old_exists, old_text, tok_free_texts, tok_failed, saves, out>>

ImportManagedError_stops_loop ==
    /\ pc = "loop"
    /\ LET token == todo[i]
           bf_namelist_cls == get_imported_bf_namelist_cls(token.fds_label, token.fds_params)
           got == get_imported_element(bf_namelist_cls, token.fds_label)
       IN  /\ bf_namelist_cls # NoClass
           /\ got.ok
           /\ objects' = got.objects
           /\ materials' = got.materials
           /\ appearance' = got.appearance
           /\ \E err_free_texts \in ErrFreeTexts :
                /\ free_texts' = Extended(free_texts, err_free_texts)
                /\ processed' = Append(processed,
                       [token |-> token, outcome |-> "error",
                        free_texts |-> err_free_texts])
    /\ errors' = TRUE
    /\ pc' = "save"
    /\ i' = i + 1
    /\ UNCHANGED <<texts, bf_head_free_text, sn_exported, tokens, todo, result,
                   old_exists, old_text, tok_free_texts, tok_failed, saves, out>>

\* one iteration of the loop on a managed token whose namelist raises a
\* BFException
ImportManagedError ==
    /\ pc = "loop"
    /\ LET token == todo[i]
           bf_namelist_cls == get_imported_bf_namelist_cls(token.fds_label, token.fds_params)
           got == get_imported_element(bf_namelist_cls, token.fds_label)
       IN  /\ bf_namelist_cls # NoClass
           /\ got.ok
           /\ objects' = got.objects
           /\ materials' = got.materials
           /\ appearance' = got.appearance
           /\ \E err_free_texts \in ErrFreeTexts :
                /\ free_texts' = Extended(free_texts, err_free_texts)
                /\ processed' = Append(processed,
                       [token |-> token, outcome |-> "error",
                        free_texts |-> err_free_texts])
    /\ errors' = TRUE
    /\ pc' = AfterToken(i)
    /\ i' = i + 1
    /\ UNCHANGED <<texts, bf_head_free_text, sn_exported, tokens, todo, result,
                   old_exists, old_text, tok_free_texts, tok_failed, saves, out>>

\* one iteration of the loop on a token that is not managed
ImportUnmanaged ==
    /\ pc = "loop"
    /\ LET token == todo[i]
           bf_namelist_cls == get_imported_bf_namelist_cls(token.fds_label, token.fds_params)
       IN  /\ bf_namelist_cls = NoClass
           /\ free_texts' = Appended(free_texts, token.fds_original)
           /\ processed' = Append(processed,
                  [token |-> token, outcome |-> "unmanaged",
                   free_texts |-> <<token.fds_original>>])
    /\ pc' = AfterToken(i)
    /\ i' = i + 1
    /\ UNCHANGED <<hostvars, tokens, errors, todo, result,
                   old_exists, old_text, tok_free_texts, tok_failed, saves, out>>

\* BFScene._save_imported_unmanaged_tokens, called at line 367
SaveImportedUnmanagedTokens ==
    /\ pc = "save"
    /\ LET file == set_free_text_file(texts, bf_head_free_text)
           old_free_texts == file.texts[file.bf_head_free_text]
           merged == MergedFreeTexts(free_texts, old_free_texts)
       IN  /\ bf_head_free_text' = file.bf_head_free_text
           /\ free_texts' = merged
           /\ texts' = [file.texts EXCEPT ![file.bf_head_free_text] = Join(<<NL>>, merged)]
    /\ saves' = saves + 1
    /\ pc' = "return"
    /\ UNCHANGED <<objects, materials, appearance, sn_exported, tokens, errors, todo, i,
                   result, old_exists, old_text, tok_free_texts, tok_failed, processed, out>>

\* from_fds, lines 369-371: return, or raise the aggregate BFException
Return ==
    /\ pc = "return"
    /\ result' = IF errors THEN "BFException" ELSE "ok"
    /\ pc' = "idle"
    /\ UNCHANGED <<hostvars, tokens, errors, free_texts, todo, i, histvars, out>>

\* A scene before any import: no entities yet, with or without a free text
Init ==
    /\ objects = <<>>
    /\ materials = <<>>
    /\ \/ texts = <<>> /\ bf_head_free_text = ""
       \/ \E t \in InitialFreeTexts :
            /\ texts = [n \in {FreeTextName} |-> t]
            /\ bf_head_free_text = FreeTextName
    /\ appearance = [system |-> "NONE", engine |-> "BLENDER_RENDER"]
    /\ sn_exported = {}
    /\ pc = "idle"
    /\ tokens = <<>>
    /\ errors = FALSE
    /\ free_texts = <<>>
    /\ todo = <<>>
    /\ i = 1
    /\ result = "none"
    /\ old_exists = FALSE
    /\ old_text = <<>>
    /\ tok_free_texts = <<>>
    /\ tok_failed = FALSE
    /\ processed = <<>>
    /\ saves = 0
    /\ out = NoCall

Next ==
    \/ TokenizeOk
    \/ TokenizeError
    \/ ImportManaged
    \/ ImportManagedError
    \/ ImportUnmanaged
    \/ SaveImportedUnmanagedTokens
    \/ Return

Spec == Init /\ [][Next]_vars

-----------------------------------------------------------------------------
(* Export: the text a to_fds returns is a sequence of pieces, one per string
   the code formats or gets from a namelist; a list of bodies is a sequence of
   such texts *)

Piece(kind, name, text) == [kind |-> kind, name |-> name, text |-> text]

\* "\n"
Newline == Piece("newline", <<>>, <<>>)

SceneName == <<"S", "c", "e", "n", "e">>

INERT == <<"I", "N", "E", "R", "T">>
OPEN == <<"O", "P", "E", "N">>

\* fds.surf.predefined
predefined == {INERT, OPEN}

\* BFNamelist.to_fds of the namelist of an object or a material: its record
BFNamelist_to_fds(bf_namelist_cls, element) ==
    <<Piece("namelist", element.name, bf_namelist_cls.name)>>

\* BFNamelist.to_fds of a namelist of the scene: its record, or None when the
\* scene does not export it
SceneNamelist_to_fds(bf_namelist_cls) ==
    IF bf_namelist_cls.name \in sn_exported
    THEN <<Piece("namelist", SceneName, bf_namelist_cls.name)>>
    ELSE <<>>

\* BFObject.bf_namelist: the class of the instance; NoClass is None
Object_bf_namelist(ob) ==
    IF ob.type # "MESH" \/ ob.bf_is_tmp
    THEN NoClass
    ELSE BFNamelist_get(ob.bf_namelist_cls)

Object_myself_to_fds_empty_unguarded(ob) ==
    IF ob.type = "MESH"
    THEN IF ob.bf_export /\ Object_bf_namelist(ob) # NoClass
         THEN <<BFNamelist_to_fds(Object_bf_namelist(ob), ob)>>
         ELSE <<>>
    ELSE IF ob.type = "EMPTY"
    THEN << <<Piece("comment", ob.name, <<>>)>> >>
    ELSE <<>>

\* BFObject._myself_to_fds
Object_myself_to_fds(ob) ==
    IF ob.bf_export
    THEN IF ob.type = "MESH"
         THEN LET bf_namelist == Object_bf_namelist(ob)
              IN  IF bf_namelist # NoClass
                  THEN LET body == BFNamelist_to_fds(bf_namelist, ob)
                       IN  IF body # <<>> THEN <<body>> ELSE <<>>
                  ELSE <<>>
         ELSE IF ob.type = "EMPTY"
         THEN << <<Piece("comment", ob.name, <<>>)>> >>
         ELSE <<>>
    ELSE <<>>

\* key=lambda k: k.bf_namelist_cls != ("ON_MESH"), as 0 (False) or 1 (True)
MeshKey(ob) == IF ob.bf_namelist_cls # ON_MESH THEN 1 ELSE 0

\* the comparisons of the sort keys MeshKey of a list
MeshLess(list) ==
    [j \in 1..Len(list) |-> [k \in 1..Len(list) |-> MeshKey(list[j]) < MeshKey(list[k])]]

children_obs_mesh_sorted_first(obs, self) ==
    LET children == SelectSeq(obs, LAMBDA ob : ob.parent = self)
        by_mesh == StableSort(children, MeshLess(children))
    IN  StableSort(by_mesh, NameLess(by_mesh))

\* BFObject._children_to_fds, lines 64-66: the children of self (a name, or
\* <<>> for None), sorted
children_obs(obs, self) ==
    LET children == SelectSeq(obs, LAMBDA ob : ob.parent = self)
        by_name == StableSort(children, NameLess(children))
    IN  StableSort(by_name, MeshLess(by_name))

RECURSIVE Object_to_fds(_, _, _)
RECURSIVE Object_children_to_fds(_, _)
RECURSIVE ChildrenBodies(_, _)

\* BFObject._children_to_fds, lines 68-72: the bodies of the children obs
ChildrenBodies(obs, kids) ==
    IF kids = <<>> THEN <<>>
    ELSE LET body == Object_to_fds(obs, Head(kids), TRUE)
         IN  (IF body # <<>> THEN <<body>> ELSE <<>>) \o ChildrenBodies(obs, Tail(kids))

\* BFObject._children_to_fds
Object_children_to_fds(obs, self) ==
    LET bodies == ChildrenBodies(obs, children_obs(obs, self))
    IN  IF bodies # <<>> THEN Append(bodies, <<Newline>>) ELSE bodies

\* BFObject.to_fds
Object_to_fds(obs, ob, with_children) ==
    Flatten(Object_myself_to_fds(ob)
            \o (IF with_children THEN Object_children_to_fds(obs, ob.name) ELSE <<>>))

\* BFMaterial.to_fds; None is <<>>
Material_to_fds(ma) ==
    IF ma.name \notin predefined
    THEN LET bf_namelist == BFNamelist_get(ma.bf_namelist_cls)
         IN  IF bf_namelist # NoClass THEN BFNamelist_to_fds(bf_namelist, ma) ELSE <<>>
    ELSE <<>>

\* BFScene.bf_namelists: the classes of the instances
Scene_bf_namelists ==
    LET bf_namelists == SelectSeq(BFNamelist_all, LAMBDA c : c.bpy_type = "Scene")
    IN  StableSort(bf_namelists,
                   [j \in 1..Len(bf_namelists) |-> [k \in 1..Len(bf_namelists) |->
                       bf_namelists[j].enum_id < bf_namelists[k].enum_id]])

RECURSIVE NonEmptyBodies(_)
\* the loop "body = ...; if body: bodies.append(body)" over the bodies
NonEmptyBodies(bodies) ==
    IF bodies = <<>> THEN <<>>
    ELSE (IF Head(bodies) # <<>> THEN <<Head(bodies)>> ELSE <<>>)
         \o NonEmptyBodies(Tail(bodies))

\* BFScene._myself_to_fds
Scene_myself_to_fds ==
    LET bf_namelists == Scene_bf_namelists
        bodies == NonEmptyBodies([k \in 1..Len(bf_namelists) |->
                                     SceneNamelist_to_fds(bf_namelists[k])])
    IN  IF bodies # <<>> THEN Append(bodies, <<Newline>>) ELSE bodies

\* BFScene._children_to_fds
Scene_children_to_fds(obs, mas) ==
    LET sorted_mas == StableSort(mas, NameLess(mas))
    IN  << <<Piece("materials_header", <<>>, <<>>)>> >>
        \o NonEmptyBodies([k \in 1..Len(sorted_mas) |-> Material_to_fds(sorted_mas[k])])
        \o << <<Piece("objects_header", <<>>, <<>>)>> >>
        \o Object_children_to_fds(obs, <<>>)

\* BFScene._header_to_fds
Scene_header_to_fds ==
    << <<Piece("header", <<>>, "Generated by")>>,
       <<Piece("header", SceneName, "Case")>>,
       <<Piece("header", <<>>, "Description")>>,
       <<Piece("header", <<>>, "Date")>>,
       <<Piece("header", <<>>, "File")>> >>

\* BFScene._free_text_to_fds
Scene_free_text_to_fds ==
    IF bf_head_free_text # ""
    THEN LET free_text == texts[bf_head_free_text]
         IN  IF free_text = <<>> THEN <<>>
             ELSE << <<Piece("free_text_header", <<>>, bf_head_free_text)>>,
                     <<Piece("free_text", <<>>, free_text)>> >>
                  \o (IF free_text[Len(free_text)] # NL THEN << <<Newline>> >> ELSE <<>>)
    ELSE <<>>

Scene_to_fds_free_text_first(obs, mas, with_children) ==
    Flatten((IF with_children THEN Scene_header_to_fds ELSE <<>>)
            \o Scene_free_text_to_fds
            \o Scene_myself_to_fds
            \o (IF with_children
                THEN Scene_children_to_fds(obs, mas) \o << <<Piece("tail", <<>>, <<>>)>> >>
                ELSE <<>>))

\* BFScene.to_fds
Scene_to_fds(obs, mas, with_children) ==
    Flatten((IF with_children THEN Scene_header_to_fds ELSE <<>>)
            \o Scene_myself_to_fds
            \o Scene_free_text_to_fds
            \o (IF with_children
                THEN Scene_children_to_fds(obs, mas) \o << <<Piece("tail", <<>>, <<>>)>> >>
                ELSE <<>>))

importvars == <<callvars, histvars>>

\* The export reads the host data and changes none of it: each behaviour makes
\* one call, out = NoCall before it.

\* a call of Object.to_fds on an object of the scene
ObjectToFds ==
    /\ pc = "idle"
    /\ out = NoCall
    /\ \E k \in 1..Len(objects), with_children \in BOOLEAN :
          out' = [call |-> "Object.to_fds", self |-> objects[k].name,
                  with_children |-> with_children,
                  value |-> Object_to_fds(objects, objects[k], with_children)]
    /\ UNCHANGED <<hostvars, importvars>>

\* a call of Object._children_to_fds on an object of the scene or on None
ObjectChildrenToFds ==
    /\ pc = "idle"
    /\ out = NoCall
    /\ \E self \in NamesOf(objects) \cup {<<>>} :
          out' = [call |-> "Object._children_to_fds", self |-> self,
                  with_children |-> TRUE,
                  value |-> Flatten(Object_children_to_fds(objects, self))]
    /\ UNCHANGED <<hostvars, importvars>>

\* a call of Scene.to_fds
SceneToFds ==
    /\ pc = "idle"
    /\ out = NoCall
    /\ \E with_children \in BOOLEAN :
          out' = [call |-> "Scene.to_fds", self |-> <<>>,
                  with_children |-> with_children,
                  value |-> Scene_to_fds(objects, materials, with_children)]
    /\ UNCHANGED <<hostvars, importvars>>

NextExport ==
    \/ ObjectToFds
    \/ ObjectChildrenToFds
    \/ SceneToFds

(* The scenes of the export *)

ObNames == { <<"B">>, <<"a">>, <<"a", "b">> }

Ob(type, bf_export, bf_namelist_cls, bf_is_tmp) ==
    [type |-> type, bf_export |-> bf_export, bf_namelist_cls |-> bf_namelist_cls,
     bf_is_tmp |-> bf_is_tmp]

ObKinds == { Ob("MESH", TRUE, ON_MESH, FALSE), Ob("MESH", FALSE, ON_MESH, FALSE),
             Ob("MESH", TRUE, ON_OBST, FALSE), Ob("MESH", FALSE, ON_OBST, FALSE),
             Ob("EMPTY", TRUE, ON_OBST, FALSE), Ob("EMPTY", FALSE, ON_OBST, FALSE),
             Ob("MESH", TRUE, ON_OBST, TRUE) }

\* the parent relations of the host: no object is its own ancestor
Hierarchies ==
    {par \in [ObNames -> ObNames \cup {<<>>}] :
        \A n \in ObNames :
            LET p1 == par[n]
                p2 == IF p1 = <<>> THEN <<>> ELSE par[p1]
                p3 == IF p2 = <<>> THEN <<>> ELSE par[p2]
            IN  p3 = <<>>}

Orders(names) ==
    {order \in [1..Cardinality(names) -> names] :
        \A k, m \in 1..Cardinality(names) : k # m => order[k] # order[m]}

ObjectCollection(order, kind, par) ==
    [k \in 1..Len(order) |->
        [name |-> order[k], type |-> kind[order[k]].type,
         bf_export |-> kind[order[k]].bf_export,
         bf_namelist_cls |-> kind[order[k]].bf_namelist_cls,
         parent |-> par[order[k]], bf_is_tmp |-> kind[order[k]].bf_is_tmp,
         show_transparent |-> FALSE]]

InitCall ==
    /\ pc = "idle"
    /\ tokens = <<>>
    /\ errors = FALSE
    /\ free_texts = <<>>
    /\ todo = <<>>
    /\ i = 1
    /\ result = "none"
    /\ old_exists = FALSE
    /\ old_text = <<>>
    /\ tok_free_texts = <<>>
    /\ tok_failed = FALSE
    /\ processed = <<>>
    /\ saves = 0
    /\ out = NoCall

\* Scenes with objects of every kind, in every hierarchy and collection order
InitObjects ==
    /\ \E order \in Orders(ObNames), kind \in [ObNames -> ObKinds], par \in Hierarchies :
          objects = ObjectCollection(order, kind, par)
    /\ materials = <<>>
    /\ texts = <<>>
    /\ bf_head_free_text = ""
    /\ appearance = [system |-> "METRIC", engine |-> "CYCLES"]
    /\ sn_exported = {}
    /\ InitCall

SpecObjects == InitObjects /\ [][NextExport]_vars

Ma(name, bf_namelist_cls) ==
    [name |-> name, bf_namelist_cls |-> bf_namelist_cls, use_fake_user |-> TRUE]

MaPool == { Ma(INERT, MN_SURF), Ma(<<"B">>, MN_SURF), Ma(<<"a">>, MN_SURF),
            Ma(<<"c">>, <<>>) }

MaterialCollections ==
    UNION {{mas \in [1..n -> MaPool] : \A k, m \in 1..n : k # m => mas[k] # mas[m]} :
              n \in 0..MaxMaterials}

SceneObKind ==
    [n \in ObNames |->
        IF n = <<"B">> THEN Ob("MESH", TRUE, ON_OBST, FALSE)
        ELSE IF n = <<"a">> THEN Ob("EMPTY", TRUE, ON_OBST, FALSE)
        ELSE Ob("MESH", TRUE, ON_MESH, FALSE)]

SceneNamelistNames ==
    {BFNamelist_all[k].name : k \in {n \in 1..Len(BFNamelist_all) :
                                        BFNamelist_all[n].bpy_type = "Scene"}}

\* Whole cases: scene namelists, free text, materials and a few hierarchies
InitScene ==
    /\ \E par \in {h \in Hierarchies : h[<<"B">>] = <<>> /\ h[<<"a">>] # <<"a", "b">>} :
          objects = ObjectCollection(<< <<"a">>, <<"a", "b">>, <<"B">> >>, SceneObKind, par)
    /\ materials \in MaterialCollections
    /\ \/ texts = <<>> /\ bf_head_free_text = ""
       \/ \E t \in {<<>>, <<"a">>, <<"a", NL>>} :
            /\ texts = [n \in {FreeTextName} |-> t]
            /\ bf_head_free_text = FreeTextName
    /\ appearance = [system |-> "METRIC", engine |-> "CYCLES"]
    /\ sn_exported \in SUBSET SceneNamelistNames
    /\ InitCall

SpecScene == InitScene /\ [][NextExport]_vars

-----------------------------------------------------------------------------
(* Properties of the export *)

Pieces == 1..Len(out.value)

IsObjectPiece(piece) ==
    \/ piece.kind = "comment"
    \/ piece.kind = "namelist" /\ BFNamelist_get(piece.text).bpy_type = "Object"

IsMaterialPiece(piece) ==
    piece.kind = "namelist" /\ BFNamelist_get(piece.text).bpy_type = "Material"

IsScenePiece(piece) ==
    piece.kind = "namelist" /\ BFNamelist_get(piece.text).bpy_type = "Scene"

\* the positions of out.value that hold the object's own text
OwnPieces(name) ==
    {p \in Pieces : IsObjectPiece(out.value[p]) /\ out.value[p].name = name}

ObjectNamed(name) == CHOOSE ob \in {objects[k] : k \in 1..Len(objects)} : ob.name = name

\* anc is the object named desc or one of its ancestors
InSubtree(desc, anc) ==
    LET p1 == ObjectNamed(desc).parent
        p2 == IF p1 = <<>> THEN <<>> ELSE ObjectNamed(p1).parent
    IN  anc \in {desc, p1, p2} \ {<<>>}

\* the object emits text of its own: export enabled and an empty, or a mesh
\* that is not temporary and has a registered namelist class
EmitsOwn(ob) ==
    /\ ob.bf_export
    /\ \/ ob.type = "EMPTY"
       \/ /\ ob.type = "MESH"
          /\ ~ob.bf_is_tmp
          /\ \E c \in Classes : c.name = ob.bf_namelist_cls

\* the order of siblings claimed: ON_MESH first, then by name
SiblingBefore(a, b) ==
    \/ a.bf_namelist_cls = ON_MESH /\ b.bf_namelist_cls # ON_MESH
    \/ /\ (a.bf_namelist_cls = ON_MESH) <=> (b.bf_namelist_cls = ON_MESH)
       /\ StrLess(a.name, b.name)

Reversed(list) == [k \in 1..Len(list) |-> list[Len(list) + 1 - k]]

Rotated(list) == IF list = <<>> THEN <<>> ELSE Tail(list) \o <<Head(list)>>

\* C5: in the text of any export, the text of the subtree of a child comes
\* before the text of the subtree of each sibling that is after it in the order
\* "ON_MESH first, then by name"; and what _children_to_fds returns does not
\* change when the scene lists its objects in another order.
C5_ChildrenOrder ==
    /\ \A a, b \in NamesOf(objects) :
          (/\ a # b
           /\ ObjectNamed(a).parent = ObjectNamed(b).parent
           /\ SiblingBefore(ObjectNamed(a), ObjectNamed(b)))
          => \A x, y \in NamesOf(objects) :
                (InSubtree(x, a) /\ InSubtree(y, b))
                => \A p \in OwnPieces(x), q \in OwnPieces(y) : p < q
    /\ out.call = "Object._children_to_fds" =>
          /\ out.value = Flatten(Object_children_to_fds(Reversed(objects), out.self))
          /\ out.value = Flatten(Object_children_to_fds(Rotated(objects), out.self))

C5_Witness ==
    /\ out.call = "Object._children_to_fds"
    /\ \E k, m \in 1..Len(objects) :
          /\ k < m
          /\ objects[k].parent = out.self
          /\ objects[m].parent = out.self
          /\ objects[m].bf_namelist_cls = ON_MESH
          /\ objects[k].bf_namelist_cls # ON_MESH
          /\ StrLess(objects[k].name, objects[m].name)
          /\ OwnPieces(objects[k].name) # {}
          /\ OwnPieces(objects[m].name) # {}

\* the block a piece belongs to; 0 for a newline, which any block may hold
Block(piece) ==
    IF piece.kind = "header" THEN 1
    ELSE IF IsScenePiece(piece) THEN 2
    ELSE IF piece.kind \in {"free_text_header", "free_text"} THEN 3
    ELSE IF piece.kind = "materials_header" \/ IsMaterialPiece(piece) THEN 4
    ELSE IF piece.kind = "objects_header" \/ IsObjectPiece(piece) THEN 5
    ELSE IF piece.kind = "tail" THEN 6
    ELSE 0

PiecesOfBlock(b) == {p \in Pieces : Block(out.value[p]) = b}

\* C6: Scene.to_fds with children emits header, scene namelists by ascending
\* enum_id, free text, materials by name, objects, trailer, in this order and
\* none interleaved; without children only the scene namelists and the free
\* text, in this order.
C6_BlockOrder ==
    out.call = "Scene.to_fds" =>
        /\ \A p, q \in Pieces :
              (p < q /\ Block(out.value[p]) # 0 /\ Block(out.value[q]) # 0)
              => Block(out.value[p]) <= Block(out.value[q])
        /\ \A p, q \in PiecesOfBlock(2) :
              p < q => BFNamelist_get(out.value[p].text).enum_id
                          < BFNamelist_get(out.value[q].text).enum_id
        /\ \A p, q \in {r \in Pieces : IsMaterialPiece(out.value[r])} :
              p < q => StrLess(out.value[p].name, out.value[q].name)
        /\ {out.value[p].text : p \in PiecesOfBlock(2)} = sn_exported
        /\ (PiecesOfBlock(3) # {}) <=> (FreeText # <<>>)
        /\ out.with_children =>
              /\ PiecesOfBlock(1) = 1..5
              /\ PiecesOfBlock(6) = {Len(out.value)}
              /\ Cardinality({p \in Pieces : out.value[p].kind = "materials_header"}) = 1
              /\ Cardinality({p \in Pieces : out.value[p].kind = "objects_header"}) = 1
              /\ \A k \in 1..Len(materials) :
                    (materials[k].name \notin predefined
                        /\ \E c \in Classes : c.name = materials[k].bf_namelist_cls)
                    <=> \E p \in Pieces : /\ IsMaterialPiece(out.value[p])
                                          /\ out.value[p].name = materials[k].name
              /\ \A k \in 1..Len(objects) :
                    Cardinality(OwnPieces(objects[k].name))
                        = IF EmitsOwn(objects[k]) THEN 1 ELSE 0
        /\ ~out.with_children => \A p \in Pieces : Block(out.value[p]) \in {0, 2, 3}

C6_Witness ==
    /\ out.call = "Scene.to_fds"
    /\ out.with_children
    /\ Cardinality(PiecesOfBlock(2)) >= 2
    /\ PiecesOfBlock(3) # {}
    /\ Cardinality({p \in Pieces : IsMaterialPiece(out.value[p])}) >= 2
    /\ Cardinality({p \in Pieces : IsObjectPiece(out.value[p])}) >= 2

\* C7: an object with bf_export false puts no text of its own into what its
\* to_fds returns, whatever its type; with children, each descendant that
\* emits text of its own still has it in the result.
C7_ExportFlag ==
    (out.call = "Object.to_fds" /\ ~ObjectNamed(out.self).bf_export) =>
        /\ OwnPieces(out.self) = {}
        /\ ~out.with_children => out.value = <<>>
        /\ out.with_children =>
              \A k \in 1..Len(objects) :
                 (objects[k].name # out.self /\ InSubtree(objects[k].name, out.self))
                 => Cardinality(OwnPieces(objects[k].name))
                        = IF EmitsOwn(objects[k]) THEN 1 ELSE 0

C7_Witness ==
    /\ out.call = "Object.to_fds"
    /\ out.with_children
    /\ ~ObjectNamed(out.self).bf_export
    /\ ObjectNamed(out.self).type = "EMPTY"
    /\ \E k \in 1..Len(objects) :
          /\ objects[k].parent = out.self
          /\ EmitsOwn(objects[k])
          /\ OwnPieces(objects[k].name) # {}

-----------------------------------------------------------------------------
(* Properties of the import *)

\* from_fds has ended, normally or with the aggregate BFException
Done == pc = "idle" /\ result # "none"

\* a token with no registry class for its label and no geometric key
IsUnmanaged(token) ==
    /\ \A c \in Classes : c.fds_label # token.fds_label
    /\ (DOMAIN token.fds_params) \cap GeometricLabels = {}

IsSurf(token) == token.fds_label = SURF_ID
IsNotSurf(token) == token.fds_label # SURF_ID

RECURSIVE Concat(_)
Concat(lists) == IF lists = <<>> THEN <<>> ELSE Head(lists) \o Concat(Tail(lists))

\* the fragments accumulated by this call, in the order they were accumulated
Accumulated ==
    tok_free_texts \o Concat([k \in 1..Len(processed) |-> processed[k].free_texts])

ProcessedTokens == [k \in 1..Len(processed) |-> processed[k].token]

Errored == {k \in 1..Len(processed) : processed[k].outcome = "error"}

\* C1: after from_fds has ended, the original text of every unmanaged token and
\* every fragment carried by the tokenizer's BFException is contained verbatim
\* in the scene's free text.
C1_NoDataLoss ==
    Done =>
        /\ \A k \in 1..Len(tokens) :
              IsUnmanaged(tokens[k]) => Contains(FreeText, tokens[k].fds_original)
        /\ \A k \in 1..Len(tok_free_texts) : Contains(FreeText, tok_free_texts[k])

C1_Witness ==
    /\ Done
    /\ result = "BFException"
    /\ old_text # <<>>
    /\ \E k \in 1..Len(tokens) : IsUnmanaged(tokens[k])
    /\ \E k \in 1..Len(tokens) : ~IsUnmanaged(tokens[k])

C1_WitnessTokenizer ==
    /\ Done
    /\ tok_failed
    /\ tok_free_texts # <<>>
    /\ old_text # <<>>

C3_AggregateError ==
    /\ Done => (result = "BFException" <=> (tok_failed \/ Errored # {}))
    /\ (pc \in {"save", "return"} \/ Done) =>
          /\ Len(processed) = Len(tokens)
          /\ \A t \in TokenPool :
                Cardinality({k \in 1..Len(processed) : processed[k].token = t})
                    = Cardinality({k \in 1..Len(tokens) : tokens[k] = t})

C3_Witness ==
    /\ Done
    /\ result = "BFException"
    /\ \E k \in Errored : k < Len(processed)

\* C4: the tokens are processed with every SURF_ID token before every other
\* token, in their original relative order within each of the two groups; the
\* processed tokens are the tokens of the input, each as often as it occurs.
C4_StablePartition ==
    /\ ProcessedTokens = SubSeq(SelectSeq(tokens, IsSurf) \o SelectSeq(tokens, IsNotSurf),
                                1, Len(processed))
    /\ (pc \in {"save", "return"} \/ Done) => Len(processed) = Len(tokens)

C4_Witness ==
    /\ Done
    /\ Len(tokens) >= 2
    /\ IsNotSurf(tokens[1])
    /\ IsSurf(tokens[2])

C4_WitnessStable ==
    /\ Done
    /\ Len(tokens) >= 2
    /\ IsSurf(tokens[1])
    /\ IsSurf(tokens[2])
    /\ tokens[1] # tokens[2]

\* C8: in every call the free text is saved exactly once, after the last token
\* was processed and before the call ends; also when the tokenizer failed, when
\* tokens failed and when the fallback list is empty; so the free text exists
\* once from_fds has ended.
C8_SavedOnce ==
    /\ saves <= 1
    /\ pc \in {"loop", "save"} => saves = 0
    /\ saves = 1 => Len(processed) = Len(tokens)
    /\ (pc = "return" \/ Done) => (saves = 1 /\ FreeTextExists)

C8_Witness ==
    /\ Done
    /\ tok_failed
    /\ Accumulated = <<>>
    /\ ~old_exists
    /\ FreeTextExists

\* C9: an import that accumulates no fragment leaves the content of the free
\* text as it was.
C9_Unchanged ==
    (Done /\ Accumulated = <<>>) => FreeText = old_text

C9_Witness ==
    /\ Done
    /\ Accumulated = <<>>
    /\ old_text # <<>>
    /\ Len(processed) > 0

====
